---- MODULE Spec2Model ----
(***************************************************************************)
(* Model of the RNG challenge: random.cpp (single core) and                *)
(* random_parallel.cpp (OpenMP).                                           *)
(*                                                                         *)
(* A std::uint32_t is a record [hi, lo] of two 16-bit halves, its value    *)
(* being hi * 2^16 + lo: TLC's integers are 32-bit signed, so the C++      *)
(* unsigned arithmetic is carried out limb by limb, and every operator     *)
(* that can exceed 32 bits has a "Wide" form that keeps the bits above     *)
(* bit 31 in a third limb, ov.                                             *)
(***************************************************************************)
EXTENDS Integers, Sequences, FiniteSets, TLC

\* 2^16: the radix of a limb.
Half == 65536

W(h, l) == [hi |-> h, lo |-> l]

--------------------------------------------------------------------------
(* std::uint32_t arithmetic, as the C++ operators compute it.              *)

\* Bitwise and / or of two n-bit numbers, by halving.
And2(a, b) ==
    (((a \div 2) * (b \div 2)) * 2) + ((a % 2) * (b % 2))

And4(a, b) == (And2(a \div 4, b \div 4) * 4) + And2(a % 4, b % 4)

And8(a, b) == (And4(a \div 16, b \div 16) * 16) + And4(a % 16, b % 16)

And16(a, b) == (And8(a \div 256, b \div 256) * 256) + And8(a % 256, b % 256)

Or1(a, b) == IF a = 1 \/ b = 1 THEN 1 ELSE 0

Or2(a, b) == (Or1(a \div 2, b \div 2) * 2) + Or1(a % 2, b % 2)

Or4(a, b) == (Or2(a \div 4, b \div 4) * 4) + Or2(a % 4, b % 4)

Or8(a, b) == (Or4(a \div 16, b \div 16) * 16) + Or4(a % 16, b % 16)

Or16(a, b) == (Or8(a \div 256, b \div 256) * 256) + Or8(a % 256, b % 256)

\* operator& on two uint32_t
AndW(a, b) == W(And16(a.hi, b.hi), And16(a.lo, b.lo))

\* operator| on two uint32_t
OrW(a, b) == W(Or16(a.hi, b.hi), Or16(a.lo, b.lo))

Trunc(w) == W(w.hi, w.lo)

\* a << k in unbounded integers, k in 0..31: ov holds the bits shifted out
\* of bit 31.
ShlWide(a, k) ==
    IF k < 16
    THEN LET l == a.lo * (2 ^ k)
             h == a.hi * (2 ^ k)
         IN  [ov |-> h \div Half, hi |-> (h % Half) + (l \div Half), lo |-> l % Half]
    ELSE LET l == a.lo * (2 ^ (k - 16))
             h == a.hi * (2 ^ (k - 16))
         IN  [ov |-> h + (l \div Half),
              hi |-> l % Half, lo |-> 0]

\* operator<< on a uint32_t: the bits shifted out are lost.
ShlW(a, k) == Trunc(ShlWide(a, k))

\* operator>> on a uint32_t, k in 0..31.
ShrW(a, k) ==
    IF k < 16
    THEN W(a.hi \div (2 ^ k), ((a.hi % (2 ^ k)) * (2 ^ (16 - k))) + (a.lo \div (2 ^ k)))
    ELSE W(0, a.hi \div (2 ^ (k - 16)))

\* c * x for a 16-bit x and a constant c < 2^23, as [hi, lo] with hi unbounded.
Mul16(c, x) ==
    LET p1 == c * (x \div 256)
        p0 == c * (x % 256)
        s  == ((p1 % 256) * 256) + p0
    IN  W((p1 \div 256) + (s \div Half), s % Half)

\* c * a in unbounded integers: ov holds the bits above bit 31.
MulWide(c, a) ==
    LET l == Mul16(c, a.lo)
        h == Mul16(c, a.hi)
        mid == l.hi + h.lo
    IN  [ov |-> h.hi + (mid \div Half), hi |-> mid % Half, lo |-> l.lo]

\* a + b in unbounded integers: ov is the carry out of bit 31.
AddWide(a, b) ==
    LET l == a.lo + b.lo
        h == a.hi + b.hi + (l \div Half)
    IN  [ov |-> h \div Half, hi |-> h % Half, lo |-> l % Half]

\* operator* and operator+ on uint32_t: the result modulo 2^32.
MulW(c, a) == Trunc(MulWide(c, a))

AddW(a, b) == Trunc(AddWide(a, b))

\* a - 1 modulo 2^32
Dec(a) ==
    IF a.lo > 0 THEN W(a.hi, a.lo - 1)
    ELSE IF a.hi > 0 THEN W(a.hi - 1, Half - 1)
    ELSE W(Half - 1, Half - 1)

PopCount2(x) == (x \div 2) + (x % 2)

PopCount4(x) == PopCount2(x \div 4) + PopCount2(x % 4)

PopCount8(x) == PopCount4(x \div 16) + PopCount4(x % 16)

PopCount16(x) == PopCount8(x \div 256) + PopCount8(x % 256)

\* std::popcount on a uint32_t
popcount(a) == PopCount16(a.hi) + PopCount16(a.lo)

One == W(0, 1)

--------------------------------------------------------------------------
(* random.cpp                                                              *)

\* static inline constexpr std::uint32_t lowerHalfSet
\*     {(static_cast<std::uint32_t>(1) << 16) - 1};
lowerHalfSet == Dec(ShlW(One, 16))

\* A multiplier too large for the carry to fit: 69069 * 0xFFFF exceeds 2^32.
mulVTooBig == 36969 + 32100

\* the multiplier of the v stream
mulV == 36969

\* the multiplier of the u stream
mulU == 18000

\* v = 36969 * (v & lowerHalfSet) + (v >> 16);
stepV(v) == AddW(MulW(mulV, AndW(v, lowerHalfSet)), ShrW(v, 16))

\* u = 18000 * (u & lowerHalfSet) + (u >> 16);
stepU(u) == AddW(MulW(mulU, AndW(u, lowerHalfSet)), ShrW(u, 16))

\* The output with u left unmasked: its upper half is added into the word.
outputUnmasked(u, v) == AddW(ShlW(v, 16), u)

\* return (v << 16) + (u & lowerHalfSet);
output(u, v) == AddW(ShlW(v, 16), AndW(u, lowerHalfSet))

\* nextRandomNumber(u, v): u and v are references, so the call yields the
\* state it leaves behind and the word it returns.
nextRandomNumber(s) ==
    LET v1 == stepV(s.v)
        u1 == stepU(s.u)
    IN  [state |-> [u |-> u1, v |-> v1], word |-> output(u1, v1)]

\* 0x55555555: the even bit positions instead of the odd ones.
alternatingBitmaskEven == W(21845, 21845)

\* 0xAAAAAAAA
alternatingBitmask == W(43690, 43690)

countPairwiseZeroBits(n) ==
    popcount(AndW(AndW(n, ShlW(n, 1)), alternatingBitmask))

attempts == 231

\* sizeof(std::uint32_t) * 4
numberOfExtractedPairs == 4 * 4

\* The constants derived from attempts, as functions of its value a.
completeAttempts(a) == a \div numberOfExtractedPairs

remainingAttempts(a) == a \div numberOfExtractedPairs

\* (1 << remainingAttempts * 2) - 1
remainingAttemptsBitmask(a) == Dec(ShlW(One, remainingAttempts(a) * 2))

\* One iteration of the for loop of calculateRound on the loop's variables
\* l = [state, count, i]; calls counts the calls of nextRandomNumber.
roundBody(l) ==
    LET r == nextRandomNumber(l.state)
        hits == countPairwiseZeroBits(r.word)
    IN  [state |-> r.state, count |-> l.count + hits, i |-> l.i + 1,
         calls |-> l.calls + 1]

\* for(std::uint32_t i {0}; i < completeAttempts; ++i)
RECURSIVE roundLoop(_, _)
roundLoop(l, n) == IF l.i < n THEN roundLoop(roundBody(l), n) ELSE l

\* calculateRound drawing the last word only when trials remain.
calculateRoundGuarded(s, a) ==
    LET l == roundLoop([state |-> s, count |-> 0, i |-> 0, calls |-> 0],
                       completeAttempts(a))
        r == nextRandomNumber(l.state)
        pseudoRandomNumber == AndW(r.word, remainingAttemptsBitmask(a))
        hits == countPairwiseZeroBits(pseudoRandomNumber)
    IN  IF a % numberOfExtractedPairs = 0
        THEN [state |-> l.state, count |-> l.count, calls |-> l.calls]
        ELSE [state |-> r.state, count |-> l.count + hits, calls |-> l.calls + 1]

\* calculateRound(u, v) with attempts = a: u and v are by-value copies, so
\* state is the callee's own copy when it returns.
calculateRound(s, a) ==
    LET l == roundLoop([state |-> s, count |-> 0, i |-> 0, calls |-> 0],
                       completeAttempts(a))
        r == nextRandomNumber(l.state)
        pseudoRandomNumber == AndW(r.word, remainingAttemptsBitmask(a))
        hits == countPairwiseZeroBits(pseudoRandomNumber)
    IN  [state |-> r.state, count |-> l.count + hits, calls |-> l.calls + 1]

\* maxCount = count: the latest count instead of the greater one.
stdmaxLatest(a, b) == b

\* std::max(maxCount, count) on two std::uint32_t
stdmax(a, b) == IF a < b THEN b ELSE a

--------------------------------------------------------------------------
(* random_parallel.cpp                                                     *)

\* sizeof(Int) * 8
bitSize == 4 * 8

halfBitSize == bitSize \div 2

\* (1 << halfBitSize) - 1
lowerHalfBitMask == Dec(ShlW(One, halfBitSize))

\* nextRandomNumber(State& state)
nextRandomNumberP(s) ==
    LET v1 == AddW(MulW(mulV, AndW(s.v, lowerHalfBitMask)), ShrW(s.v, halfBitSize))
        u1 == AddW(MulW(mulU, AndW(s.u, lowerHalfBitMask)), ShrW(s.u, halfBitSize))
    IN  [state |-> [u |-> u1, v |-> v1],
         word |-> OrW(ShlW(v1, halfBitSize), AndW(u1, lowerHalfBitMask))]

\* deriveNewState(State& state): the caller's state after the two calls and
\* the State returned.
deriveNewState(s) ==
    LET r1 == nextRandomNumberP(s)
        r2 == nextRandomNumberP(r1.state)
    IN  [state |-> r2.state, new |-> [u |-> r1.word, v |-> r2.word]]

\* 0xAAAAAAAA
alternatingBitmaskP == W(43690, 43690)

countPairwiseZeroBitsP(n) ==
    popcount(AndW(AndW(n, ShlW(n, 1)), alternatingBitmaskP))

numberOfExtractedPairsP == halfBitSize

completeAttemptsP(a) == a \div numberOfExtractedPairsP

remainingAttemptsP(a) == a % numberOfExtractedPairsP

\* (1 << (remainingAttempts * 2)) - 1
remainingAttemptsBitmaskP(a) == Dec(ShlW(One, remainingAttemptsP(a) * 2))

roundBodyP(l) ==
    LET r == nextRandomNumberP(l.state)
        hits == countPairwiseZeroBitsP(r.word)
    IN  [state |-> r.state, count |-> l.count + hits, i |-> l.i + 1,
         calls |-> l.calls + 1]

\* for(Int i = 0; i < completeAttempts; ++i)
RECURSIVE roundLoopP(_, _)
roundLoopP(l, n) == IF l.i < n THEN roundLoopP(roundBodyP(l), n) ELSE l

\* calculateRound(State state) with attempts = a
calculateRoundP(s, a) ==
    LET l == roundLoopP([state |-> s, count |-> 0, i |-> 0, calls |-> 0],
                        completeAttemptsP(a))
        r == nextRandomNumberP(l.state)
        pseudoRandomNumber == AndW(r.word, remainingAttemptsBitmaskP(a))
        hits == countPairwiseZeroBitsP(pseudoRandomNumber)
    IN  [state |-> r.state, count |-> l.count + hits, calls |-> l.calls + 1]

\* The loop of Init's copy constructor on its variables l = [s, i]:
\* for(int i {0}; i < 2*ithread; ++i) s = deriveNewState(s);
RECURSIVE initLoop(_, _)
initLoop(l, ithread) ==
    IF l.i < 2 * ithread
    THEN initLoop([s |-> deriveNewState(l.s).new, i |-> l.i + 1], ithread)
    ELSE l

\* The copy constructor with the loop bound ithread instead of 2*ithread: the
\* loop entered at i = ithread runs ithread times.
InitCopyOnce(other, ithread) == initLoop([s |-> other, i |-> ithread], ithread).s

\* Init::Init(const Init& other), run by the thread omp_get_thread_num() =
\* ithread: the state member of the copy.
InitCopy(other, ithread) == initLoop([s |-> other, i |-> 0], ithread).s

\* std::max(maxCount, count) in the parallel loop
stdmaxP(a, b) == IF a < b THEN b ELSE a

\* An unsynchronised shared maximum: the thread that writes last wins.
lastWriterWins(a, b) == b

\* reduction(max:maxCount): the combiner, and the value a private copy starts
\* from (the least std::uint32_t).
reductionCombine(a, b) == IF a < b THEN b ELSE a

reductionIdentity == 0

--------------------------------------------------------------------------
(* Bounds and inputs                                                       *)

\* rounds is 1'000'000'000 in both programs; the model runs 0..MaxRounds
\* batches sequentially and 0..MaxShare batches on each of NumWorkers threads.
MaxRounds == 3

NumWorkers == 2

MaxShare == 2

\* calls of nextRandomNumber the unit harness makes on one state
MaxCalls == 3

Workers == 0..(NumWorkers - 1)

St(uh, ul, vh, vl) == [u |-> W(uh, ul), v |-> W(vh, vl)]

\* u = 0xC0DE15AF, v = ~u: the seed of both main functions
MainSeed == St(49374, 5551, 16161, 59984)

\* (0x464FFFFF, 0x779F8330): its first two words are the state below
AllOnesSeed == St(17999, 65535, 30623, 33584)

\* (0x464FFFFF, 0x9068FFFF): a fixed point of both streams, every word 0xFFFFFFFF
FixedPoint == St(17999, 65535, 36968, 65535)

\* the seeds of a simulation: u and v may be changed at will
SimSeeds == {MainSeed, AllOnesSeed}

\* 0, 0xFFFFFFFF, 0x0000FFFF, 0xFFFF0000, 1, 0x80000000
EdgeWords == {W(0, 0), W(65535, 65535), W(0, 65535), W(65535, 0), W(0, 1), W(32768, 0)}

\* the states the functions are called on
Seeds == SimSeeds \cup {FixedPoint} \cup {[u |-> a, v |-> b] : a, b \in EdgeWords}

\* words given to countPairwiseZeroBits, besides the generated ones
SampleWords ==
    {W(0, 0), W(65535, 65535), W(43690, 43690), W(21845, 21845), W(0, 3),
     W(0, 6), W(49152, 0), W(1, 32768), W(32768, 1), W(23025, 24974)}

\* values of attempts the batch evaluator is built with (231 in the source)
AttemptsSet == {0, 1, 7, 15, 16, 17, 32, 48, attempts, 240}

--------------------------------------------------------------------------
(* State                                                                   *)

VARIABLES
    prog,       \* "unit": single calls; "seq": random.cpp; "par": random_parallel.cpp
    seed,       \* the state main passes to runSimulation / the harness starts from
    st,         \* unit: the generator state the calls are made on
    last,       \* unit: the last call, its arguments and what it returned
    ncalls,     \* unit: calls of nextRandomNumber made on st
    rounds,     \* the value of rounds
    pc,         \* runSimulation: "loop", "parallel" or "done"
    maxCount,   \* runSimulation's maxCount (in par: the shared original)
    ret,        \* the value runSimulation returned
    run,        \* seq: runSimulation's u and v
    i,          \* seq: the loop index
    results,    \* seq, history: the counts calculateRound returned
    maxTrace,   \* seq, history: maxCount after each batch
    batchSeeds, \* seq, history: the (uu, vv) given to calculateRound
    init,       \* par: the original Init object's state
    share,      \* par: iterations the static schedule gives each thread
    wpc,        \* par: each thread's position: "start", "loop", "reduced"
    winit,      \* par: each thread's private init.state
    wmax,       \* par: each thread's private maxCount
    wdone,      \* par: iterations each thread has run
    wstart,     \* par, history: the private init.state a thread started from
    wresults,   \* par, history: the counts each thread's batches returned
    wseeds      \* par, history: the States each thread gave to calculateRound

unitVars == <<st, last, ncalls>>

seqVars == <<run, i, results, maxTrace, batchSeeds>>

parVars == <<init, share, wpc, winit, wmax, wdone, wstart, wresults, wseeds>>

vars == <<prog, seed, rounds, pc, maxCount, ret, unitVars, seqVars, parVars>>

RECURSIVE SumShare(_, _)
SumShare(f, n) == IF n = 0 THEN 0 ELSE f[n - 1] + SumShare(f, n - 1)

UnitIdle == st = seed /\ last = [op |-> "none"] /\ ncalls = 0

SeqIdle ==
    run = seed /\ i = 0 /\ results = <<>> /\ maxTrace = <<>> /\ batchSeeds = <<>>

ParIdle(sh) ==
    /\ init = seed
    /\ share = sh
    /\ wpc = [w \in Workers |-> "start"]
    /\ winit = [w \in Workers |-> seed]
    /\ wmax = [w \in Workers |-> 0]
    /\ wdone = [w \in Workers |-> 0]
    /\ wstart = [w \in Workers |-> seed]
    /\ wresults = [w \in Workers |-> <<>>]
    /\ wseeds = [w \in Workers |-> <<>>]

InitUnit ==
    /\ prog = "unit"
    /\ seed \in Seeds
    /\ rounds = 0 /\ pc = "done" /\ maxCount = 0 /\ ret = 0
    /\ UnitIdle /\ SeqIdle /\ ParIdle([w \in Workers |-> 0])

\* random.cpp: runSimulation(u, v) entered, maxCount {0}
InitSeq ==
    /\ prog = "seq"
    /\ seed \in SimSeeds
    /\ rounds \in 0..MaxRounds
    /\ pc = "loop" /\ maxCount = 0 /\ ret = 0
    /\ UnitIdle /\ SeqIdle /\ ParIdle([w \in Workers |-> 0])

\* random_parallel.cpp: runSimulation(state) at the parallel for, maxCount {0},
\* init {state}, the iterations split among the threads
InitPar ==
    /\ prog = "par"
    /\ seed \in SimSeeds
    /\ \E sh \in [Workers -> 0..MaxShare] :
          /\ rounds = SumShare(sh, NumWorkers)
          /\ ParIdle(sh)
    /\ pc = "parallel" /\ maxCount = 0 /\ ret = 0
    /\ UnitIdle /\ SeqIdle

Init == InitUnit \/ InitSeq \/ InitPar

--------------------------------------------------------------------------
(* Single calls of the functions of both programs: the harness advances st  *)
(* by calls of nextRandomNumber and, between two of them, calls one of the   *)
(* other functions once.                                                    *)

UnitNext ==
    /\ prog = "unit"
    /\ ncalls < MaxCalls
    /\ LET r == nextRandomNumber(st)
       IN  /\ last' = [op |-> "next", arg |-> st, seq |-> r,
                       par |-> nextRandomNumberP(st)]
           /\ st' = r.state
    /\ ncalls' = ncalls + 1
    /\ UNCHANGED <<prog, seed, rounds, pc, maxCount, ret, seqVars, parVars>>

UnitCount ==
    /\ prog = "unit"
    /\ last.op \in {"none", "next"}
    /\ \E n \in SampleWords \cup {nextRandomNumber(st).word} :
          last' = [op |-> "count", arg |-> n, seq |-> countPairwiseZeroBits(n),
                   par |-> countPairwiseZeroBitsP(n)]
    /\ UNCHANGED <<prog, seed, rounds, pc, maxCount, ret, st, ncalls, seqVars, parVars>>

UnitRound ==
    /\ prog = "unit"
    /\ last.op \in {"none", "next"}
    /\ \E a \in AttemptsSet :
          last' = [op |-> "round", arg |-> st, att |-> a,
                   seq |-> calculateRound(st, a), par |-> calculateRoundP(st, a)]
    /\ UNCHANGED <<prog, seed, rounds, pc, maxCount, ret, st, ncalls, seqVars, parVars>>

--------------------------------------------------------------------------
(* random.cpp: runSimulation                                               *)

\* The iteration with calculateRound taking u and v by reference: the batch's
\* final state becomes the running state.
SeqIterationByRef ==
    /\ prog = "seq" /\ pc = "loop"
    /\ i < rounds
    /\ LET r1 == nextRandomNumber(run)
           uu == r1.word
           r2 == nextRandomNumber(r1.state)
           vv == r2.word
           c == calculateRound([u |-> uu, v |-> vv], attempts)
       IN  /\ run' = c.state
           /\ maxCount' = stdmax(maxCount, c.count)
           /\ results' = Append(results, c.count)
           /\ maxTrace' = Append(maxTrace, stdmax(maxCount, c.count))
           /\ batchSeeds' = Append(batchSeeds, [u |-> uu, v |-> vv])
    /\ i' = i + 1
    /\ UNCHANGED <<prog, seed, rounds, pc, ret, unitVars, parVars>>

\* one iteration of for(std::uint32_t i {0}; i < rounds; ++i)
SeqIteration ==
    /\ prog = "seq" /\ pc = "loop"
    /\ i < rounds
    /\ LET r1 == nextRandomNumber(run)
           uu == r1.word
           r2 == nextRandomNumber(r1.state)
           vv == r2.word
           count == calculateRound([u |-> uu, v |-> vv], attempts).count
       IN  /\ run' = r2.state
           /\ maxCount' = stdmax(maxCount, count)
           /\ results' = Append(results, count)
           /\ maxTrace' = Append(maxTrace, stdmax(maxCount, count))
           /\ batchSeeds' = Append(batchSeeds, [u |-> uu, v |-> vv])
    /\ i' = i + 1
    /\ UNCHANGED <<prog, seed, rounds, pc, ret, unitVars, parVars>>

\* the loop ends: return maxCount;
SeqReturn ==
    /\ prog = "seq" /\ pc = "loop"
    /\ ~(i < rounds)
    /\ pc' = "done"
    /\ ret' = maxCount
    /\ UNCHANGED <<prog, seed, rounds, maxCount, unitVars, seqVars, parVars>>

--------------------------------------------------------------------------
(* random_parallel.cpp: runSimulation                                      *)

\* A thread enters the parallel region: firstprivate(init) copy-constructs its
\* init, reduction(max:maxCount) gives it a private maxCount.
WorkerStart(w) ==
    /\ prog = "par" /\ pc = "parallel"
    /\ wpc[w] = "start"
    /\ winit' = [winit EXCEPT ![w] = InitCopy(init, w)]
    /\ wstart' = [wstart EXCEPT ![w] = InitCopy(init, w)]
    /\ wmax' = [wmax EXCEPT ![w] = reductionIdentity]
    /\ wpc' = [wpc EXCEPT ![w] = "loop"]
    /\ UNCHANGED <<prog, seed, rounds, pc, maxCount, ret, unitVars, seqVars,
                   init, share, wdone, wresults, wseeds>>

\* one iteration of the loop body on thread w
WorkerIteration(w) ==
    /\ prog = "par" /\ pc = "parallel"
    /\ wpc[w] = "loop"
    /\ wdone[w] < share[w]
    /\ LET d == deriveNewState(winit[w])
           newState == d.new
           count == calculateRoundP(newState, attempts).count
       IN  /\ winit' = [winit EXCEPT ![w] = d.state]
           /\ wmax' = [wmax EXCEPT ![w] = stdmaxP(wmax[w], count)]
           /\ wresults' = [wresults EXCEPT ![w] = Append(@, count)]
           /\ wseeds' = [wseeds EXCEPT ![w] = Append(@, newState)]
    /\ wdone' = [wdone EXCEPT ![w] = @ + 1]
    /\ UNCHANGED <<prog, seed, rounds, pc, maxCount, ret, unitVars, seqVars,
                   init, share, wpc, wstart>>

\* thread w has run its iterations: its private maxCount is combined into the
\* original one
WorkerReduce(w) ==
    /\ prog = "par" /\ pc = "parallel"
    /\ wpc[w] = "loop"
    /\ ~(wdone[w] < share[w])
    /\ maxCount' = reductionCombine(maxCount, wmax[w])
    /\ wpc' = [wpc EXCEPT ![w] = "reduced"]
    /\ UNCHANGED <<prog, seed, rounds, pc, ret, unitVars, seqVars,
                   init, share, winit, wmax, wdone, wstart, wresults, wseeds>>

\* the region ends when every thread is through: return maxCount;
ParReturn ==
    /\ prog = "par" /\ pc = "parallel"
    /\ \A w \in Workers : wpc[w] = "reduced"
    /\ pc' = "done"
    /\ ret' = maxCount
    /\ UNCHANGED <<prog, seed, rounds, maxCount, unitVars, seqVars, parVars>>

Next ==
    \/ UnitNext
    \/ UnitCount
    \/ UnitRound
    \/ SeqIteration
    \/ SeqReturn
    \/ \E w \in Workers : WorkerStart(w)
    \/ \E w \in Workers : WorkerIteration(w)
    \/ \E w \in Workers : WorkerReduce(w)
    \/ ParReturn

Spec == Init /\ [][Next]_vars

--------------------------------------------------------------------------
(* What the claims are stated in: the generator as arithmetic on numbers,  *)
(* the bits of a word, the maximum of a sequence.                          *)

\* c * (x mod 2^16) + floor(x / 2^16), modulo 2^32
MwcStep(c, x) == Trunc(AddWide(MulWide(c, W(0, x.lo)), W(0, x.hi)))

\* One step of the generator: v' and u' as above, and the word whose upper
\* half is the lower half of v' and whose lower half is the lower half of u',
\* which is ((v' << 16) | (u' & 0xFFFF)) modulo 2^32.
SpecNext(s) ==
    LET v1 == MwcStep(36969, s.v)
        u1 == MwcStep(18000, s.u)
    IN  [state |-> [u |-> u1, v |-> v1], word |-> W(v1.lo, u1.lo)]

RECURSIVE StreamLoop(_, _)
StreamLoop(l, n) ==
    IF Len(l.ws) < n
    THEN LET r == SpecNext(l.s)
         IN  StreamLoop([s |-> r.state, ws |-> Append(l.ws, r.word)], n)
    ELSE l

\* the first n words generated from state s, and the state after them
SpecWords(s, n) == StreamLoop([s |-> s, ws |-> <<>>], n).ws

SpecAdvance(s, n) == StreamLoop([s |-> s, ws |-> <<>>], n).s

\* the pair (word 2k-1, word 2k) generated from s
SpecPair(s, k) ==
    LET ws == SpecWords(s, 2 * k) IN [u |-> ws[(2 * k) - 1], v |-> ws[2 * k]]

Bit(n, k) == IF k < 16 THEN (n.lo \div (2 ^ k)) % 2 ELSE (n.hi \div (2 ^ (k - 16))) % 2

\* the 2-bit group j of word n has pattern 11
Pair11(n, j) == Bit(n, 2 * j) = 1 /\ Bit(n, (2 * j) + 1) = 1

\* the 11-groups among the first a 2-bit groups of the stream generated from s
GroupsHit(s, a) ==
    LET ws == SpecWords(s, (a + 15) \div 16)
    IN  Cardinality({j \in 0..(a - 1) : Pair11(ws[(j \div 16) + 1], j % 16)})

Range(q) == {q[k] : k \in 1..Len(q)}

MaxOfSet(S) == IF S = {} THEN 0 ELSE CHOOSE m \in S : \A x \in S : x <= m

MaxOfSeq(q) == MaxOfSet(Range(q))

--------------------------------------------------------------------------
(* The claims                                                              *)

CalledNext == prog = "unit" /\ last.op = "next"

CalledCount == prog = "unit" /\ last.op = "count"

CalledRound == prog = "unit" /\ last.op = "round"

\* C1: in both programs one call of nextRandomNumber on (u, v) leaves
\* v' = 36969 * (v & 0xFFFF) + (v >> 16) and u' = 18000 * (u & 0xFFFF) + (u >> 16),
\* both modulo 2^32, and returns ((v' << 16) | (u' & 0xFFFF)) modulo 2^32; the
\* '+' of random.cpp and the '|' of random_parallel.cpp give the same word.
C1_NextRandomNumber ==
    CalledNext =>
        /\ last.seq.state.v = MwcStep(36969, last.arg.v)
        /\ last.seq.state.u = MwcStep(18000, last.arg.u)
        /\ last.seq.word = W(last.seq.state.v.lo, last.seq.state.u.lo)
        /\ last.par = SpecNext(last.arg)
        /\ last.seq.word = last.par.word

\* A call on the seed of main returned 0x59F1618E, with a v' above 16 bits and a
\* u' above 16 bits.
C1_Witness ==
    /\ CalledNext
    /\ last.arg = MainSeed
    /\ last.seq.word = W(23025, 24974)
    /\ last.seq.state.v.hi > 0 /\ last.seq.state.u.hi > 0

C10_UpdateNeverWraps ==
    CalledNext =>
        LET mv == MulWide(mulV, AndW(last.arg.v, lowerHalfSet))
            mu == MulWide(mulU, AndW(last.arg.u, lowerHalfSet))
            sv == AddWide(Trunc(mv), ShrW(last.arg.v, 16))
            su == AddWide(Trunc(mu), ShrW(last.arg.u, 16))
            v1 == last.seq.state.v
            u1 == last.seq.state.u
        IN  /\ mv.ov = 0 /\ mu.ov = 0
            /\ sv.ov = 0 /\ su.ov = 0
            /\ v1 = Trunc(sv) /\ u1 = Trunc(su)
            /\ last.par.state = last.seq.state
            /\ AddWide(ShlW(v1, 16), AndW(u1, lowerHalfSet)).ov = 0
            /\ ShlWide(v1, 16).ov = v1.hi

\* A call on v = u = 0xFFFFFFFF: the largest products and sums, and a v' whose
\* upper half the shift drops.
C10_Witness ==
    /\ CalledNext
    /\ last.arg = St(65535, 65535, 65535, 65535)
    /\ ShlWide(last.seq.state.v, 16).ov > 0

\* C3: in both programs calculateRound returns the number of 11-groups among
\* exactly attempts (231) 2-bit groups of the stream generated from the state
\* it is given: all 16 groups of the first 14 words and the low 7 groups (14
\* bits) of the 15th.
C3_ExactlyAttemptsGroups ==
    (CalledRound /\ last.att = attempts) =>
        /\ last.par.count = GroupsHit(last.arg, attempts)
        /\ last.seq.count = GroupsHit(last.arg, attempts)

\* C4: in both programs every count calculateRound returns, the running
\* maximum and the value runSimulation returns are no greater than attempts.
C4_ResultsWithinAttempts ==
    /\ prog = "seq" =>
          /\ \A k \in 1..Len(results) : results[k] \in 0..attempts
          /\ maxCount \in 0..attempts
          /\ ret \in 0..attempts
    /\ prog = "par" =>
          /\ \A w \in Workers : \A k \in 1..Len(wresults[w]) :
                wresults[w][k] \in 0..attempts
          /\ \A w \in Workers : wmax[w] \in 0..attempts
          /\ maxCount \in 0..attempts
          /\ ret \in 0..attempts

\* C5 as claimed: for every value of attempts one call of calculateRound makes
\* exactly ceil(attempts / 16) calls of nextRandomNumber.
C5_CeilCalls ==
    CalledRound =>
        /\ last.seq.calls = (last.att + 15) \div 16
        /\ last.par.calls = (last.att + 15) \div 16

\* C5 as amended: one call of calculateRound makes exactly
\* floor(attempts / 16) + 1 calls of nextRandomNumber, the last draw being
\* unconditional: that is ceil(attempts / 16) when attempts is no multiple of
\* 16 (as 231 is), and one more when it is.
C5_FloorPlusOneCalls ==
    CalledRound =>
        /\ last.seq.calls = (last.att \div 16) + 1
        /\ last.par.calls = (last.att \div 16) + 1
        /\ (last.att % 16 # 0 => last.seq.calls = (last.att + 15) \div 16)
        /\ (last.att % 16 = 0 => last.seq.calls = ((last.att + 15) \div 16) + 1)

\* calculateRound was built with attempts = 32, a multiple of 16, and drew 3 words.
C5_Witness ==
    /\ CalledRound
    /\ last.att = 32
    /\ last.seq.calls = 3 /\ last.par.calls = 3

\* C6: in random.cpp, after k batches maxCount is the maximum of the first k
\* counts (0 for k = 0), so it never decreases; the value returned is the
\* maximum of exactly rounds counts, and with rounds = 1 the single count.
C6_RunningMaximum ==
    prog = "seq" =>
        /\ Len(results) = i /\ Len(maxTrace) = i /\ i <= rounds
        /\ maxCount = MaxOfSeq(results)
        /\ \A k \in 1..i :
              /\ maxTrace[k] = MaxOfSeq(SubSeq(results, 1, k))
              /\ k > 1 => maxTrace[k - 1] <= maxTrace[k]
        /\ pc = "done" =>
              /\ i = rounds
              /\ ret = MaxOfSeq(results)
              /\ rounds = 1 => ret = results[1]

\* runSimulation returned after at least two batches, the second of which
\* counted less than the first.
C6_Witness ==
    /\ prog = "seq" /\ pc = "done"
    /\ Len(results) >= 2
    /\ results[2] < results[1]
    /\ ret >= results[1]

\* The counts thread w's first k batches return, computed from the seed and w
\* alone.
WorkerCounts(w, k) ==
    [j \in 1..k |-> GroupsHit(SpecPair(InitCopy(seed, w), j), attempts)]

\* C7, what holds in every state: each thread's private state and maximum are
\* functions of the seed, its index and the number of batches it has run; the
\* value returned is the maximum of all threads' maxima, whatever the order.
C7_State ==
    prog = "par" =>
        /\ \A w \in Workers : wpc[w] # "start" =>
              /\ wresults[w] = WorkerCounts(w, wdone[w])
              /\ wmax[w] = MaxOfSeq(wresults[w])
              /\ winit[w] = SpecAdvance(InitCopy(seed, w), 2 * wdone[w])
        /\ pc = "done" =>
              /\ \A w \in Workers : wdone[w] = share[w]
              /\ ret = MaxOfSet({wmax[w] : w \in Workers})
              /\ ret = MaxOfSet(UNION {Range(WorkerCounts(w, share[w])) : w \in Workers})

\* C7, what holds of every step: a step that changes one thread's private
\* state, maximum or progress leaves those of every other thread as they were.
C7_Frame ==
    \A w \in Workers :
        (winit'[w] # winit[w] \/ wmax'[w] # wmax[w] \/ wdone'[w] # wdone[w]) =>
            \A x \in Workers \ {w} :
                winit'[x] = winit[x] /\ wmax'[x] = wmax[x] /\ wdone'[x] = wdone[x]

\* C7: in random_parallel.cpp every interleaving of the threads' steps ends
\* with the same returned value, the maximum over all threads' local maxima,
\* and no step of one thread changes another thread's state or maximum.
C7_InterleavingIndependent == [](C7_State) /\ [][C7_Frame]_vars

\* runSimulation returned after both of two threads ran batches, with
\* different local maxima.
C7_Witness ==
    /\ prog = "par" /\ pc = "done"
    /\ wdone[0] > 0 /\ wdone[1] > 0
    /\ wmax[0] # wmax[1]
    /\ ret = MaxOfSet({wmax[0], wmax[1]})

\* s re-seeded n times, each time with the pair of the next two words it
\* generates
RECURSIVE ReseedTimes(_, _)
ReseedTimes(s, n) == IF n = 0 THEN s ELSE ReseedTimes(SpecPair(s, 1), n - 1)

\* C8 as claimed: thread w starts from the seed advanced by exactly 2 * w calls
\* of nextRandomNumber, and the seed is left unchanged.
C8_AdvancedByTwoW ==
    prog = "par" =>
        /\ init = seed
        /\ \A w \in Workers : wpc[w] # "start" => wstart[w] = SpecAdvance(seed, 2 * w)

\* C8 as amended: thread w starts from the seed re-seeded 2 * w times, each
\* time with (u, v) = the next two words the state generates (4 * w calls of
\* nextRandomNumber in all); thread 0 starts from the seed itself, and the
\* seed is left unchanged.
C8_ReseededTwoWTimes ==
    prog = "par" =>
        /\ init = seed
        /\ \A w \in Workers : wpc[w] # "start" =>
              /\ wstart[w] = ReseedTimes(seed, 2 * w)
              /\ w = 0 => wstart[w] = seed

\* Thread 1 has started, from a state that is not the seed advanced by 2 calls.
C8_Witness ==
    /\ prog = "par"
    /\ wpc[1] # "start"
    /\ wstart[1] = ReseedTimes(seed, 2)
    /\ wstart[1] # SpecAdvance(seed, 2)

\* C9: in runSimulation of random.cpp and in each thread's loop of
\* random_parallel.cpp, batch k is seeded with (u, v) = (word 2k-1, word 2k) of
\* the running state's stream, and after k batches the running state has been
\* advanced by exactly 2k calls: evaluating a batch leaves it as it was.
C9_BatchSeeding ==
    /\ prog = "seq" =>
          /\ Len(batchSeeds) = i
          /\ \A k \in 1..i : batchSeeds[k] = SpecPair(seed, k)
          /\ run = SpecAdvance(seed, 2 * i)
    /\ prog = "par" =>
          \A w \in Workers : wpc[w] # "start" =>
              /\ Len(wseeds[w]) = wdone[w]
              /\ \A k \in 1..wdone[w] : wseeds[w][k] = SpecPair(wstart[w], k)
              /\ winit[w] = SpecAdvance(wstart[w], 2 * wdone[w])

\* random.cpp has run two batches from the seed of main; the second was seeded
\* with (0x4D32535B, 0x556B0626).
C9_Witness ==
    /\ prog = "seq" /\ seed = MainSeed
    /\ i = 2
    /\ batchSeeds[2] = St(19762, 21339, 21867, 1574)
    /\ run = SpecAdvance(seed, 4)

====
